---- MODULE Spec2Model ----
(***************************************************************************)
(* Clock domain generation for LUNA (luna/gateware/architecture/clock.py). *)
(*                                                                         *)
(* The model covers LunaDomainGenerator.elaborate and the ECP5 generator:  *)
(* its constructor, create_submodules (the EHXPLLL instance), the four     *)
(* generate_*_clock methods and stretch_sync_strobe_to_ulpi.  Python       *)
(* dictionaries are heap objects reached through references, so that the   *)
(* class-level DEFAULT_CLOCK_FREQUENCIES_MHZ and a caller's dictionary can *)
(* be shared by several generators, as they are in the source.             *)
(***************************************************************************)
EXTENDS Integers, Sequences, FiniteSets, TLC

\* Number of generator objects a run constructs.
NumGens == 2

\* The assumed input clock of the ECP5 generator, in MHz.
InputClockMHz == 60

Keys == {"fast", "sync", "ulpi"}

\* The documented valid choices for each domain, in MHz.
Freqs == {60, 120, 240}

\* Requested values outside the documented choices.
OtherFreqs == {30}

Vals == Freqs \cup OtherFreqs

\* Heap addresses of the dictionaries: the class attribute and a dictionary
\* owned by the caller of the constructor.
ClassDict == "DEFAULT_CLOCK_FREQUENCIES_MHZ"
CallerDict == "caller_dict"

VARIABLES
    heap,   \* address -> dictionary (a function whose domain is a subset of Keys)
    gens,   \* the generators constructed so far, in order of construction
    last    \* the outcome of the operation run most recently

vars == <<heap, gens, last>>

----------------------------------------------------------------------------
(* Signals and expressions *)

Signal(name) == <<"Signal", name>>

ClockSignal(domain) == <<"ClockSignal", domain>>

\* A value usable on the right of .eq(): a signal, possibly under `~`.
Plain(sig) == [sig |-> sig, inv |-> FALSE]

Invert(sig) == [sig |-> sig, inv |-> TRUE]

NoExpr == Plain(Signal(""))

----------------------------------------------------------------------------
(* Python dictionaries *)

\* d[k] = v
SetItem(d, k, v) == [x \in (DOMAIN d) \cup {k} |-> IF x = k THEN v ELSE d[x]]

DEFAULT_CLOCK_FREQUENCIES_MHZ == [fast |-> 240, sync |-> 120, ulpi |-> 60]

AllDicts == UNION {[D -> Vals] : D \in SUBSET Keys}

Defects(d) == {k \in Keys : k \notin DOMAIN d \/ d[k] \notin Freqs}

\* The dictionaries a caller passes as clock_frequencies: every mapping of
\* the three keys to valid choices, and those with one key missing or one
\* value outside the valid choices.
InputMappings == {d \in AllDicts : Cardinality(Defects(d)) <= 1}

----------------------------------------------------------------------------
(* The module under elaboration *)

EmptyModule == [domains |-> <<>>, submodules |-> <<>>, comb |-> <<>>]

\* The p_ parameters of the PLL instance that set its ratios and phases.
PllParams ==
    [CLKOS3_FPHASE |-> 0, CLKOS3_CPHASE |-> 0,
     CLKOS2_FPHASE |-> 0, CLKOS2_CPHASE |-> 7,
     CLKOS_FPHASE  |-> 0, CLKOS_CPHASE  |-> 3,
     CLKOP_FPHASE  |-> 0, CLKOP_CPHASE  |-> 1,
     CLKOS3_DIV |-> 1, CLKOS2_DIV |-> 8, CLKOS_DIV |-> 4, CLKOP_DIV |-> 2,
     CLKFB_DIV |-> 4, CLKI_DIV |-> 1]

\* The p_ parameters that enable outputs and choose the feedback path.
PllSettings ==
    [CLKOS3_ENABLE |-> "DISABLED", CLKOS2_ENABLE |-> "ENABLED",
     CLKOS_ENABLE |-> "ENABLED", CLKOP_ENABLE |-> "ENABLED",
     FEEDBK_PATH |-> "CLKOP", DPHASE_SOURCE |-> "DISABLED"]

\* The a_FREQUENCY_PIN_ synthesis attributes, as the strings of the source.
PllAttributes ==
    [FREQUENCY_PIN_CLKI   |-> <<"6", "0", ".", "0", "0", "0", "0", "0", "0">>,
     FREQUENCY_PIN_CLKOS2 |-> <<"6", "0", ".", "0", "0", "0", "0", "0", "0">>,
     FREQUENCY_PIN_CLKOS  |-> <<"1", "2", "0", ".", "0", "0", "0", "0", "0", "0">>,
     FREQUENCY_PIN_CLKOP  |-> <<"2", "4", "0", ".", "0", "0", "0", "0", "0", "0">>]

\* Mutants of the instance: a wrong CLKOS divider, a wrong CLKOS2 phase.
EHXPLLL_wrong_divider(clk240, clk120, clk60, lock) ==
    [type |-> "EHXPLLL",
     o |-> [CLKOP |-> clk240, CLKOS |-> clk120, CLKOS2 |-> clk60, LOCK |-> lock],
     i |-> [CLKFB |-> clk240],
     p |-> [PllParams EXCEPT !.CLKOS_DIV = 2],
     s |-> PllSettings,
     a |-> PllAttributes]

EHXPLLL_wrong_phase(clk240, clk120, clk60, lock) ==
    [type |-> "EHXPLLL",
     o |-> [CLKOP |-> clk240, CLKOS |-> clk120, CLKOS2 |-> clk60, LOCK |-> lock],
     i |-> [CLKFB |-> clk240],
     p |-> [PllParams EXCEPT !.CLKOS2_CPHASE = 3],
     s |-> PllSettings,
     a |-> PllAttributes]

\* The ECP5 PLL instance of create_submodules.
EHXPLLL(clk240, clk120, clk60, lock) ==
    [type |-> "EHXPLLL",
     o |-> [CLKOP |-> clk240, CLKOS |-> clk120, CLKOS2 |-> clk60, LOCK |-> lock],
     i |-> [CLKFB |-> clk240],
     p |-> PllParams,
     s |-> PllSettings,
     a |-> PllAttributes]

----------------------------------------------------------------------------
(* Execution of one elaborate() call.  An execution state carries the      *)
(* local module m, the attributes create_submodules sets on self, the log  *)
(* of the calls made so far, the values the generate_ methods returned,    *)
(* and the exception that is propagating, if any.                          *)

NewSelf(g) ==
    [clock_frequencies |-> g.clock_frequencies,
     attrs |-> {},
     _clock_options |-> <<>>]

StartExec(g) ==
    [m |-> EmptyModule, self |-> NewSelf(g), calls |-> <<>>, rets |-> <<>>,
     exc |-> "None"]

Running(es) == es.exc = "None"

Returned(v) == [exc |-> "None", value |-> v]

Raised(e) == [exc |-> e, value |-> NoExpr]

\* m.domains.<d> = ClockDomain()
AddDomain(es, d) ==
    IF ~Running(es) THEN es
    ELSE [es EXCEPT !.m.domains = Append(@, d),
                    !.calls = Append(@, <<"ClockDomain", d>>)]

ECP5_create_submodules(es) ==
    IF ~Running(es) THEN es
    ELSE LET clk240 == Signal("_clk_240MHz")
             clk120 == Signal("_clk_120MHz")
             clk60  == Signal("_clk_60MHz")
             opts   == (60 :> clk60) @@ (120 :> clk120) @@ (240 :> clk240)
         IN [es EXCEPT
               !.self.attrs = @ \cup {"_pll_lock", "_clk_240MHz", "_clk_120MHz",
                                      "_clk_60MHz", "_clock_options"},
               !.self._clock_options = opts,
               !.m.submodules = Append(@, [name |-> "pll",
                   inst |-> EHXPLLL(clk240, clk120, clk60, Signal("_pll_lock"))]),
               !.calls = Append(@, <<"call", "create_submodules">>)]

\* Mutant: a lookup that falls back to the 60 MHz output, as dict.get would.
SelectOption_with_fallback(self, h, key) ==
    LET cf == h[self.clock_frequencies] IN
    IF "_clock_options" \notin self.attrs THEN Raised("AttributeError")
    ELSE IF key \notin DOMAIN cf \/ cf[key] \notin DOMAIN self._clock_options
         THEN Returned(Plain(self._clock_options[60]))
    ELSE Returned(Plain(self._clock_options[cf[key]]))

\* self._clock_options[self.clock_frequencies[key]]
SelectOption(self, h, key) ==
    LET cf == h[self.clock_frequencies] IN
    IF "_clock_options" \notin self.attrs THEN Raised("AttributeError")
    ELSE IF key \notin DOMAIN cf THEN Raised("KeyError")
    ELSE IF cf[key] \notin DOMAIN self._clock_options THEN Raised("KeyError")
    ELSE Returned(Plain(self._clock_options[cf[key]]))

generate_ulpi_clock(self, h) == SelectOption(self, h, "ulpi")

\* Mutant: the sync clock selected by the frequency requested for fast.
generate_sync_clock_by_fast(self, h) ==
    LET cf == h[self.clock_frequencies] IN
    IF "_clock_options" \notin self.attrs THEN Raised("AttributeError")
    ELSE IF "fast" \notin DOMAIN cf THEN Raised("KeyError")
    ELSE IF cf["fast"] \notin DOMAIN self._clock_options THEN Raised("KeyError")
    ELSE Returned(Plain(self._clock_options[cf["fast"]]))

generate_sync_clock(self, h) == SelectOption(self, h, "sync")

generate_fast_clock(self, h) == SelectOption(self, h, "fast")

\* Mutants: the inversion applied at every frequency; the comparison made
\* inclusive, so that 120 is no longer inverted.
generate_fast_out_clock_always_inverted(self, h) ==
    LET cf == h[self.clock_frequencies] IN
    IF "fast" \notin DOMAIN cf THEN Raised("KeyError")
    ELSE LET frequency == cf["fast"] IN
         IF "_clock_options" \notin self.attrs THEN Raised("AttributeError")
         ELSE IF frequency \notin DOMAIN self._clock_options THEN Raised("KeyError")
         ELSE Returned(Invert(self._clock_options[frequency]))

generate_fast_out_clock_inclusive(self, h) ==
    LET cf == h[self.clock_frequencies] IN
    IF "fast" \notin DOMAIN cf THEN Raised("KeyError")
    ELSE LET frequency == cf["fast"] IN
         IF "_clock_options" \notin self.attrs THEN Raised("AttributeError")
         ELSE IF frequency \notin DOMAIN self._clock_options THEN Raised("KeyError")
         ELSE IF frequency >= 120
              THEN Returned(Plain(self._clock_options[frequency]))
              ELSE Returned(Invert(self._clock_options[frequency]))

generate_fast_out_clock(self, h) ==
    LET cf == h[self.clock_frequencies] IN
    IF "fast" \notin DOMAIN cf THEN Raised("KeyError")
    ELSE LET frequency == cf["fast"] IN
         IF "_clock_options" \notin self.attrs THEN Raised("AttributeError")
         ELSE IF frequency \notin DOMAIN self._clock_options THEN Raised("KeyError")
         ELSE IF frequency > 120
              THEN Returned(Plain(self._clock_options[frequency]))
              ELSE Returned(Invert(self._clock_options[frequency]))

Dispatch(name, self, h) ==
    CASE name = "generate_ulpi_clock"     -> generate_ulpi_clock(self, h)
      [] name = "generate_sync_clock"     -> generate_sync_clock(self, h)
      [] name = "generate_fast_clock"     -> generate_fast_clock(self, h)
      [] name = "generate_fast_out_clock" -> generate_fast_out_clock(self, h)

\* One element of the assignment list: the call is made, and its value kept
\* or its exception propagated.
CallGenerate(es, name, h) ==
    IF ~Running(es) THEN es
    ELSE LET r == Dispatch(name, es.self, h) IN
         [es EXCEPT !.calls = Append(@, <<"call", name>>),
                    !.rets = IF r.exc = "None" THEN Append(@, r.value) ELSE @,
                    !.exc = r.exc]

\* m.d.comb += [...], once the whole list has been built.
Connect(es) ==
    IF ~Running(es) THEN es
    ELSE [es EXCEPT !.m.comb = @ \o
            << [lhs |-> Signal("clk_ulpi"),     rhs |-> es.rets[1]],
               [lhs |-> Signal("clk_sync"),     rhs |-> es.rets[2]],
               [lhs |-> Signal("clk_fast"),     rhs |-> es.rets[3]],
               [lhs |-> Signal("clk_fast_out"), rhs |-> es.rets[4]],
               [lhs |-> ClockSignal("fast"),     rhs |-> Plain(Signal("clk_fast"))],
               [lhs |-> ClockSignal("fast_out"), rhs |-> Plain(Signal("clk_fast_out"))],
               [lhs |-> ClockSignal("sync"),     rhs |-> Plain(Signal("clk_sync"))],
               [lhs |-> ClockSignal("ulpi"),     rhs |-> Plain(Signal("clk_ulpi"))] >>]

\* Mutant: the clocks generated before the submodule hook has run.
elaborate_hook_last(g, h) ==
    LET e0 == StartExec(g)
        e1 == AddDomain(e0, "fast")
        e2 == AddDomain(e1, "sync")
        e3 == AddDomain(e2, "ulpi")
        e4 == AddDomain(e3, "fast_out")
        e5 == CallGenerate(e4, "generate_ulpi_clock", h)
        e6 == CallGenerate(e5, "generate_sync_clock", h)
        e7 == CallGenerate(e6, "generate_fast_clock", h)
        e8 == CallGenerate(e7, "generate_fast_out_clock", h)
        e9 == ECP5_create_submodules(e8)
    IN Connect(e9)

elaborate(g, h) ==
    LET e0 == StartExec(g)
        e1 == AddDomain(e0, "fast")
        e2 == AddDomain(e1, "sync")
        e3 == AddDomain(e2, "ulpi")
        e4 == AddDomain(e3, "fast_out")
        e5 == ECP5_create_submodules(e4)
        e6 == CallGenerate(e5, "generate_ulpi_clock", h)
        e7 == CallGenerate(e6, "generate_sync_clock", h)
        e8 == CallGenerate(e7, "generate_fast_clock", h)
        e9 == CallGenerate(e8, "generate_fast_out_clock", h)
    IN Connect(e9)

----------------------------------------------------------------------------
(* stretch_sync_strobe_to_ulpi *)

NoCall == [strobe |-> "", output |-> "", to_cycles |-> 0, allow_delay |-> FALSE]

\* Mutant: the ratio taken the wrong way round.
stretch_sync_strobe_to_ulpi_inverse_ratio(g, h, strobe, output, allow_delay) ==
    LET cf == h[g.clock_frequencies] IN
    IF "sync" \notin DOMAIN cf \/ "ulpi" \notin DOMAIN cf
    THEN [exc |-> "KeyError", call |-> NoCall]
    ELSE LET to_cycles == cf["ulpi"] \div cf["sync"] IN
         [exc |-> "None",
          call |-> [strobe |-> strobe, output |-> output,
                    to_cycles |-> to_cycles, allow_delay |-> allow_delay]]

\* The call made to stretch_strobe_signal, or the exception of the lookups.
stretch_sync_strobe_to_ulpi(g, h, strobe, output, allow_delay) ==
    LET cf == h[g.clock_frequencies] IN
    IF "sync" \notin DOMAIN cf \/ "ulpi" \notin DOMAIN cf
    THEN [exc |-> "KeyError", call |-> NoCall]
    ELSE LET to_cycles == cf["sync"] \div cf["ulpi"] IN
         [exc |-> "None",
          call |-> [strobe |-> strobe, output |-> output,
                    to_cycles |-> to_cycles, allow_delay |-> allow_delay]]

\* The arguments callers pass: (strobe, output, allow_delay).
StretchArgs ==
    { <<"tx_strobe", "None", FALSE>>,
      <<"rx_strobe", "stretched", FALSE>>,
      <<"rx_strobe", "None", TRUE>> }

----------------------------------------------------------------------------
(* State machine *)

NoOutcome ==
    [op |-> "none", gen |-> 0, exc |-> "None", returned |-> FALSE,
     m |-> EmptyModule, self |-> NewSelf([clock_frequencies |-> ClassDict]),
     calls |-> <<>>, rets |-> <<>>, args |-> <<"", "", FALSE>>, call |-> NoCall]

Init ==
    /\ heap = (ClassDict :> DEFAULT_CLOCK_FREQUENCIES_MHZ)
    /\ gens = <<>>
    /\ last = NoOutcome

\* LunaECP5DomainGenerator(): clock_frequencies is None.
ConstructDefault ==
    /\ Len(gens) < NumGens
    /\ gens' = Append(gens, [clock_frequencies |-> ClassDict, arg |-> "None"])
    /\ last' = NoOutcome
    /\ UNCHANGED heap

\* LunaECP5DomainGenerator(clock_frequencies=d), d a dictionary the caller
\* builds for the purpose, or the one it passed to an earlier generator.
ConstructWith ==
    /\ Len(gens) < NumGens
    /\ \/ /\ CallerDict \notin DOMAIN heap
          /\ \E d \in InputMappings : heap' = heap @@ (CallerDict :> d)
       \/ /\ CallerDict \in DOMAIN heap
          /\ UNCHANGED heap
    /\ gens' = Append(gens, [clock_frequencies |-> CallerDict, arg |-> "dict"])
    /\ last' = NoOutcome

\* gens[i].clock_frequencies[k] = v
Update(i, k, v) ==
    /\ i \in 1..Len(gens)
    /\ heap' = [heap EXCEPT ![gens[i].clock_frequencies] = SetItem(@, k, v)]
    /\ last' = [NoOutcome EXCEPT !.op = "update", !.gen = i]
    /\ UNCHANGED gens

\* gens[i].elaborate(platform)
Elaborate(i) ==
    /\ i \in 1..Len(gens)
    /\ LET es == elaborate(gens[i], heap) IN
       last' = [NoOutcome EXCEPT !.op = "elaborate", !.gen = i, !.exc = es.exc,
                                 !.returned = Running(es), !.m = es.m,
                                 !.self = es.self, !.calls = es.calls,
                                 !.rets = es.rets]
    /\ UNCHANGED <<heap, gens>>

\* gens[i].stretch_sync_strobe_to_ulpi(m, strobe, output, allow_delay)
Stretch(i, a) ==
    /\ i \in 1..Len(gens)
    /\ LET r == stretch_sync_strobe_to_ulpi(gens[i], heap, a[1], a[2], a[3]) IN
       last' = [NoOutcome EXCEPT !.op = "stretch", !.gen = i, !.exc = r.exc,
                                 !.returned = (r.exc = "None"), !.args = a,
                                 !.call = r.call]
    /\ UNCHANGED <<heap, gens>>

Next ==
    \/ ConstructDefault
    \/ ConstructWith
    \/ \E i \in 1..NumGens, k \in Keys, v \in Freqs : Update(i, k, v)
    \/ \E i \in 1..NumGens : Elaborate(i)
    \/ \E i \in 1..NumGens, a \in StretchArgs : Stretch(i, a)

Spec == Init /\ [][Next]_vars

----------------------------------------------------------------------------
(* Reading an elaborated module *)

\* The dictionary the generator of the last operation refers to.
Config == heap[gens[last.gen].clock_frequencies]

ValidConfig(cf) == DOMAIN cf = Keys /\ \A k \in Keys : cf[k] \in Freqs

ElaboratedValid == last.op = "elaborate" /\ ValidConfig(Config)

PortOf == [fast |-> "clk_fast", sync |-> "clk_sync", ulpi |-> "clk_ulpi"]

Taps == {"CLKOP", "CLKOS", "CLKOS2"}

Xor(a, b) == (a /\ ~b) \/ (~a /\ b)

\* The undriven signal an expression comes from, through the combinational
\* assignments of m, with the inversions met on the way.
RECURSIVE Resolve(_, _)
Resolve(m, e) ==
    LET drv == {n \in 1..Len(m.comb) : m.comb[n].lhs = e.sig} IN
    IF drv = {} THEN e
    ELSE LET rhs == m.comb[CHOOSE n \in drv : TRUE].rhs IN
         Resolve(m, [sig |-> rhs.sig, inv |-> Xor(e.inv, rhs.inv)])

ThePll(m) == m.submodules[1].inst

\* The PLL outputs wired to a signal.
TapsOf(m, sig) == {t \in Taps : ThePll(m).o[t] = sig}

\* The PLL outputs that drive a signal of m.
TapsDriving(m, sig) == TapsOf(m, Resolve(m, Plain(sig)).sig)

\* Frequency of a PLL output in MHz, from the integer ratios: the feedback
\* path holds CLKOP at CLKI * CLKFB_DIV / CLKI_DIV, the VCO runs at
\* CLKOP * CLKOP_DIV, and each secondary output divides the VCO.
ClkopMHz(pll) == (InputClockMHz * pll.p.CLKFB_DIV) \div pll.p.CLKI_DIV

VcoMHz(pll) == ClkopMHz(pll) * pll.p.CLKOP_DIV

TapMHz(pll, t) ==
    CASE t = "CLKOP"  -> ClkopMHz(pll)
      [] t = "CLKOS"  -> VcoMHz(pll) \div pll.p.CLKOS_DIV
      [] t = "CLKOS2" -> VcoMHz(pll) \div pll.p.CLKOS2_DIV

RatiosExact(pll) ==
    /\ pll.s.FEEDBK_PATH = "CLKOP"
    /\ pll.i.CLKFB = pll.o.CLKOP
    /\ (InputClockMHz * pll.p.CLKFB_DIV) % pll.p.CLKI_DIV = 0
    /\ VcoMHz(pll) % pll.p.CLKOS_DIV = 0
    /\ VcoMHz(pll) % pll.p.CLKOS2_DIV = 0

DigitOf ==
    ("0" :> 0) @@ ("1" :> 1) @@ ("2" :> 2) @@ ("3" :> 3) @@ ("4" :> 4) @@
    ("5" :> 5) @@ ("6" :> 6) @@ ("7" :> 7) @@ ("8" :> 8) @@ ("9" :> 9)

RECURSIVE ParseDigits(_, _)
ParseDigits(cs, acc) ==
    IF cs = <<>> THEN acc ELSE ParseDigits(Tail(cs), acc * 10 + DigitOf[Head(cs)])

\* A decimal string with six places after the point, read in Hz.
ParseHz(cs) ==
    LET dot == CHOOSE n \in 1..Len(cs) : cs[n] = "." IN
    IF Len(cs) - dot = 6
    THEN ParseDigits(SubSeq(cs, 1, dot - 1) \o SubSeq(cs, dot + 1, Len(cs)), 0)
    ELSE -1

\* The frequency each signal of create_submodules is named after.
NamedMHz ==
    (Signal("_clk_240MHz") :> 240) @@ (Signal("_clk_120MHz") :> 120) @@
    (Signal("_clk_60MHz") :> 60)

AttributeOf ==
    [CLKOP |-> "FREQUENCY_PIN_CLKOP", CLKOS |-> "FREQUENCY_PIN_CLKOS",
     CLKOS2 |-> "FREQUENCY_PIN_CLKOS2"]

ExpectedTap == (240 :> "CLKOP") @@ (120 :> "CLKOS") @@ (60 :> "CLKOS2")

ExpectedMHz == [CLKOP |-> 240, CLKOS |-> 120, CLKOS2 |-> 60]

DividerOf == [CLKOP |-> "CLKOP_DIV", CLKOS |-> "CLKOS_DIV", CLKOS2 |-> "CLKOS2_DIV",
              CLKOS3 |-> "CLKOS3_DIV"]

CPhaseOf == [CLKOP |-> "CLKOP_CPHASE", CLKOS |-> "CLKOS_CPHASE",
             CLKOS2 |-> "CLKOS2_CPHASE", CLKOS3 |-> "CLKOS3_CPHASE"]

FPhaseOf == [CLKOP |-> "CLKOP_FPHASE", CLKOS |-> "CLKOS_FPHASE",
             CLKOS2 |-> "CLKOS2_FPHASE", CLKOS3 |-> "CLKOS3_FPHASE"]

EnableOf == [CLKOP |-> "CLKOP_ENABLE", CLKOS |-> "CLKOS_ENABLE",
             CLKOS2 |-> "CLKOS2_ENABLE", CLKOS3 |-> "CLKOS3_ENABLE"]

EnabledOutputs(pll) ==
    {t \in DOMAIN EnableOf : pll.s[EnableOf[t]] = "ENABLED"}

----------------------------------------------------------------------------
(* Claims *)

C2_RatiosGiveNamedFrequencies ==
    (last.op = "elaborate" /\ Len(last.m.submodules) > 0) =>
        LET pll == ThePll(last.m) IN
        /\ RatiosExact(pll)
        /\ ParseHz(pll.a.FREQUENCY_PIN_CLKI) = InputClockMHz * 1000000
        /\ \A t \in Taps :
              /\ TapMHz(pll, t) = ExpectedMHz[t]
              /\ NamedMHz[pll.o[t]] = TapMHz(pll, t)
              /\ ParseHz(pll.a[AttributeOf[t]]) = TapMHz(pll, t) * 1000000
        /\ DOMAIN last.self._clock_options = Freqs
        /\ \A f \in DOMAIN last.self._clock_options :
              \E t \in Taps :
                 /\ TapsOf(last.m, last.self._clock_options[f]) = {t}
                 /\ TapMHz(pll, t) = f

C2_Witness ==
    /\ last.op = "elaborate"
    /\ last.returned
    /\ Len(last.m.submodules) = 1
    /\ TapMHz(ThePll(last.m), "CLKOS") = 120
    /\ ParseHz(ThePll(last.m).a.FREQUENCY_PIN_CLKOS) = 120000000

\* C3: for every valid configuration the fast, sync and ulpi clocks are in
\* phase: all three come from outputs of the one PLL instance, every enabled
\* output has fine phase 0 and coarse phase equal to its divider minus one,
\* and none of the three clocks is inverted.
C3_ClocksInPhase ==
    ElaboratedValid =>
        /\ Len(last.m.submodules) = 1
        /\ LET pll == ThePll(last.m) IN
           /\ \A t \in EnabledOutputs(pll) :
                 /\ pll.p[FPhaseOf[t]] = 0
                 /\ pll.p[CPhaseOf[t]] = pll.p[DividerOf[t]] - 1
           /\ \A d \in Keys :
                 LET src == Resolve(last.m, Plain(ClockSignal(d))) IN
                 /\ ~src.inv
                 /\ ~Resolve(last.m, Plain(Signal(PortOf[d]))).inv
                 /\ \E t \in EnabledOutputs(pll) \cap Taps : pll.o[t] = src.sig

C3_Witness ==
    /\ ElaboratedValid
    /\ last.returned
    /\ Config = [fast |-> 120, sync |-> 60, ulpi |-> 60]
    /\ EnabledOutputs(ThePll(last.m)) = Taps
    /\ Resolve(last.m, Plain(ClockSignal("fast"))) = Plain(Signal("_clk_120MHz"))

C5_UlpiIs60MHz ==
    (ElaboratedValid /\ last.returned) =>
        /\ TapsDriving(last.m, ClockSignal("ulpi")) = {"CLKOS2"}
        /\ \A t \in TapsDriving(last.m, ClockSignal("ulpi")) :
              TapMHz(ThePll(last.m), t) = 60

\* C6: for sync and ulpi in {60, 120, 240} with ulpi < sync, the to_cycles
\* passed to stretch_strobe_signal is the exact ratio sync / ulpi (2 or 4),
\* so that to_cycles sync periods cover one ulpi period; strobe, output and
\* allow_delay are passed through unchanged.
C6_StretchByExactRatio ==
    (/\ last.op = "stretch"
     /\ {"sync", "ulpi"} \subseteq DOMAIN Config
     /\ Config["sync"] \in Freqs /\ Config["ulpi"] \in Freqs
     /\ Config["ulpi"] < Config["sync"]) =>
        /\ last.exc = "None"
        /\ last.call.to_cycles \in {2, 4}
        /\ last.call.to_cycles * Config["ulpi"] = Config["sync"]
        /\ last.call.strobe = last.args[1]
        /\ last.call.output = last.args[2]
        /\ last.call.allow_delay = last.args[3]

C6_Witness ==
    /\ last.op = "stretch"
    /\ {"sync", "ulpi"} \subseteq DOMAIN Config
    /\ Config["sync"] = 240 /\ Config["ulpi"] = 60
    /\ last.call.to_cycles = 4
    /\ last.call.strobe = "rx_strobe"
    /\ last.call.output = "stretched"

\* The frequencies a generator elaborates with are the documented defaults.
ElaboratesWithDefaults(g, h) ==
    LET es == elaborate(g, h) IN
    /\ Running(es)
    /\ \A d \in Keys : \A t \in TapsDriving(es.m, ClockSignal(d)) :
          TapMHz(ThePll(es.m), t) = DEFAULT_CLOCK_FREQUENCIES_MHZ[d]
    /\ \A d \in Keys : TapsDriving(es.m, ClockSignal(d)) # {}

\* C7 as stated: a generator constructed without clock_frequencies
\* elaborates with fast = 240, sync = 120 and ulpi = 60, when it is
\* constructed and after every construction of another generator and every
\* update made to another generator's mapping; a generator constructed with
\* a mapping refers to exactly that mapping.
C7_DefaultsSurviveOtherGenerators ==
    [][\A j \in 1..Len(gens') :
          /\ ( /\ gens'[j].arg = "None"
               /\ ~(last'.op = "update" /\ last'.gen = j)
               /\ j <= Len(gens) => ElaboratesWithDefaults(gens[j], heap) )
             => ElaboratesWithDefaults(gens'[j], heap')
          /\ gens'[j].arg = "dict" => gens'[j].clock_frequencies = CallerDict
      ]_vars

C9_InvalidRequestRaises ==
    (last.op = "elaborate" /\ ~ValidConfig(Config)) =>
        /\ last.exc = "KeyError"
        /\ ~last.returned
        /\ last.m.comb = <<>>

C9_Witness ==
    /\ last.op = "elaborate"
    /\ "ulpi" \in DOMAIN Config /\ Config["ulpi"] = 60
    /\ "sync" \in DOMAIN Config /\ Config["sync"] = 120
    /\ "fast" \notin DOMAIN Config
    /\ last.exc = "KeyError"
    /\ Len(last.rets) = 2
    /\ last.m.comb = <<>>

\* The calls of one complete elaboration, in order.
ElaborateOrder ==
    << <<"ClockDomain", "fast">>, <<"ClockDomain", "sync">>,
       <<"ClockDomain", "ulpi">>, <<"ClockDomain", "fast_out">>,
       <<"call", "create_submodules">>,
       <<"call", "generate_ulpi_clock">>, <<"call", "generate_sync_clock">>,
       <<"call", "generate_fast_clock">>, <<"call", "generate_fast_out_clock">> >>

====
